---- MODULE Spec2Model ----
(***************************************************************************)
(* EmscriptenHttpResponseWrapper (urllib3/contrib/emscripten/response.py): *)
(* the length resolver _init_length, the buffered/stream body, read,       *)
(* read_chunked, data, json, close, drain_conn and release_conn.           *)
(*                                                                         *)
(* Python values are encoded as follows.                                   *)
(*   str / bytes      a sequence of one-character strings                  *)
(*   Optional[T]      <<>> for None, <<v>> for a value v                   *)
(*   call outcome     [kind |-> "return", val |-> ...] or                  *)
(*                    [kind |-> "raise",  exc |-> "<exception class>"]     *)
(***************************************************************************)
EXTENDS Integers, Sequences, FiniteSets, TLC

VARIABLES
    pc,                \* "call", "returned": a call of _init_length; "new", "raised": __init__;
                       \* "live": an instance
    status,            \* self.status
    content_length,    \* self.headers.get("content-length"): Optional[str]
    chunked,           \* self.chunked
    request_method,    \* self._response.request.method
    ret,               \* outcome of the _init_length call under test (Optional)
    body,              \* the bytes the transport delivers as self._response.body
    is_stream,         \* isinstance(self._response.body, IOBase)
    pos,               \* read position of the stream
    closed,            \* the stream has been closed
    _body,             \* self._body: Optional[bytes]
    length_remaining,  \* self.length_remaining: Optional[int]
    _pool,             \* self._pool
    _connection,       \* self._connection
    last,              \* the most recent call and its outcome
    hist               \* observations of the caller and the collaborators

vars == <<pc, status, content_length, chunked, request_method, ret, body, is_stream,
          pos, closed, _body, length_remaining, _pool, _connection, last, hist>>

-----------------------------------------------------------------------------
(* Bounds of the model. *)

MaxHdrLen == 4     \* longest Content-Length header value explored
MaxBody == 2       \* longest body explored
MaxAmt == 1        \* largest explicit amt passed to read / read_chunked

-----------------------------------------------------------------------------
(* Python values. *)

None == <<>>
Some(v) == <<v>>
IsNone(o) == o = <<>>
Val(o) == o[1]

Return(v) == [kind |-> "return", val |-> v]
Raise(e) == [kind |-> "raise", exc |-> e]

Max(a, b) == IF a >= b THEN a ELSE b
Min(a, b) == IF a <= b THEN a ELSE b

RECURSIVE SeqsUpTo(_, _)
SeqsUpTo(S, n) ==
    IF n = 0 THEN {<<>>}
    ELSE LET shorter == SeqsUpTo(S, n - 1)
         IN  shorter \cup {Append(s, c) : s \in {t \in shorter : Len(t) = n - 1}, c \in S}

-----------------------------------------------------------------------------
(* str.split(",") and int(), as used on line 93. *)

HdrChars == {"0", "1", ",", " ", "-", "x"}   \* the characters header values are made of
Digits == {"0", "1", "2", "3", "4", "5", "6", "7", "8", "9"}
DigitVal(c) ==
    CASE c = "0" -> 0 [] c = "1" -> 1 [] c = "2" -> 2 [] c = "3" -> 3 [] c = "4" -> 4
      [] c = "5" -> 5 [] c = "6" -> 6 [] c = "7" -> 7 [] c = "8" -> 8 [] c = "9" -> 9

\* str.split(sep): every separator cuts, empty pieces are kept.
RECURSIVE split(_, _)
split(s, sep) ==
    IF \A i \in 1..Len(s) : s[i] # sep THEN <<s>>
    ELSE LET i == CHOOSE k \in 1..Len(s) : s[k] = sep /\ \A j \in 1..(k - 1) : s[j] # sep
         IN  <<SubSeq(s, 1, i - 1)>> \o split(SubSeq(s, i + 1, Len(s)), sep)

\* str.strip() of the whitespace int() ignores.
RECURSIVE strip(_)
strip(s) ==
    IF Len(s) > 0 /\ s[1] = " " THEN strip(Tail(s))
    ELSE IF Len(s) > 0 /\ s[Len(s)] = " " THEN strip(SubSeq(s, 1, Len(s) - 1))
    ELSE s

RECURSIVE DecimalValue(_)
DecimalValue(d) ==
    IF Len(d) = 0 THEN 0
    ELSE 10 * DecimalValue(SubSeq(d, 1, Len(d) - 1)) + DigitVal(d[Len(d)])

\* int(val): Return(n), or Raise("ValueError") when val is not an integer literal.
int(val) ==
    LET t == strip(val)
        neg == Len(t) > 0 /\ t[1] = "-"
        d == IF neg THEN Tail(t) ELSE t
    IN  IF Len(d) = 0 \/ \E i \in 1..Len(d) : d[i] \notin Digits
        THEN Raise("ValueError")
        ELSE Return(IF neg THEN 0 - DecimalValue(d) ELSE DecimalValue(d))

-----------------------------------------------------------------------------
(* _init_length, lines 69-120.  The outcome carries the number of warnings *)
(* the call has logged.                                                    *)

\* log.warning(...), lines 78-84: the module binds no name `log`.
log_warning == [kind |-> "raise", exc |-> "NameError", warnings |-> 0]

\* raise InvalidHeader(...), lines 95-98: the module binds no name `InvalidHeader`;
\* the exception raised is not a ValueError, so line 100 does not catch it.
raise_InvalidHeader == [kind |-> "raise", exc |-> "NameError", warnings |-> 0]

\* The override without the informational range.
NoBodyExpected_no_1xx(st, method) ==
    st \in {204, 304} \/ method = "HEAD"

\* Lines 116-118.
NoBodyExpected(st, method) ==
    st \in {204, 304} \/ (100 <= st /\ st < 200) \/ method = "HEAD"

\* Lines 87-104 taking the smallest value where the values disagree.
ParsedLength_first_wins(cl) ==
    LET parts == split(cl, ",")
        ints == {int(parts[i]) : i \in 1..Len(parts)}
    IN  IF \E r \in ints : r.kind = "raise" THEN Return(None)
        ELSE LET lengths == {r.val : r \in ints}
                 length == CHOOSE n \in lengths : \A m \in lengths : n <= m
             IN  IF length < 0 THEN Return(None) ELSE Return(Some(length))

\* Lines 87-104 with `length <= 0` on line 103.
ParsedLength_zero_unknown(cl) ==
    LET parts == split(cl, ",")
        ints == {int(parts[i]) : i \in 1..Len(parts)}
    IN  IF \E r \in ints : r.kind = "raise" THEN Return(None)
        ELSE LET lengths == {r.val : r \in ints}
             IN  IF Cardinality(lengths) > 1 THEN raise_InvalidHeader
                 ELSE LET length == CHOOSE n \in lengths : TRUE
                      IN  IF length <= 0 THEN Return(None) ELSE Return(Some(length))

\* Lines 87-104: the length the Content-Length value yields, before the override.
ParsedLength(cl) ==
    LET parts == split(cl, ",")
        ints == {int(parts[i]) : i \in 1..Len(parts)}
    IN  IF \E r \in ints : r.kind = "raise" THEN Return(None)          \* except ValueError
        ELSE LET lengths == {r.val : r \in ints}
             IN  IF Cardinality(lengths) > 1 THEN raise_InvalidHeader
                 ELSE LET length == CHOOSE n \in lengths : TRUE
                      IN  IF length < 0 THEN Return(None) ELSE Return(Some(length))

_init_length(cl, chk, st, method) ==
    IF ~IsNone(cl) /\ chk THEN log_warning
    ELSE LET parsed == IF IsNone(cl) THEN Return(None) ELSE ParsedLength(Val(cl))
         IN  IF parsed.kind = "raise" THEN parsed
             ELSE [kind |-> "return",
                   val |-> IF NoBodyExpected(st, method) THEN Some(0) ELSE parsed.val,
                   warnings |-> 0]

-----------------------------------------------------------------------------
(* bytes.decode("utf-8") and json.loads, as used on lines 186-187.         *)

FF == "\\xff"                              \* a byte that no UTF-8 sequence contains
BodyBytes == {"1", FF}                      \* the bytes bodies are made of
JsonBytes == {"1", "[", "]", FF}            \* the bytes JSON bodies are made of

\* bytes.decode("utf-8"): the text, or UnicodeDecodeError.
decode_utf8(b) ==
    IF \E i \in 1..Len(b) : b[i] = FF THEN Raise("UnicodeDecodeError") ELSE Return(b)

\* JSON values: an integer n, or a list of values.
JInt(n) == [t |-> "int", n |-> n, items |-> <<>>]
JList(items) == [t |-> "list", n |-> 0, items |-> items]

RECURSIVE OnesEnd(_, _)
\* The index after the run of "1" digits that starts at i.
OnesEnd(s, i) == IF i <= Len(s) /\ s[i] = "1" THEN OnesEnd(s, i + 1) ELSE i

RECURSIVE OnesValue(_)
OnesValue(n) == IF n = 0 THEN 0 ELSE 10 * OnesValue(n - 1) + 1

\* The JSON value that starts at s[i]: [ok, val, next].
RECURSIVE parse_value(_, _)
parse_value(s, i) ==
    LET fail == [ok |-> FALSE, val |-> JInt(0), next |-> i]
    IN  IF i > Len(s) THEN fail
        ELSE IF s[i] = "1"
        THEN LET j == OnesEnd(s, i)
             IN  [ok |-> TRUE, val |-> JInt(OnesValue(j - i)), next |-> j]
        ELSE IF s[i] = "["
        THEN IF i + 1 <= Len(s) /\ s[i + 1] = "]"
             THEN [ok |-> TRUE, val |-> JList(<<>>), next |-> i + 2]
             ELSE LET r == parse_value(s, i + 1)
                  IN  IF r.ok /\ r.next <= Len(s) /\ s[r.next] = "]"
                      THEN [ok |-> TRUE, val |-> JList(<<r.val>>), next |-> r.next + 1]
                      ELSE fail
        ELSE fail

\* json.loads(text): the value, or JSONDecodeError.
json_loads(s) ==
    LET r == parse_value(s, 1)
    IN  IF r.ok /\ r.next = Len(s) + 1 THEN Return(r.val) ELSE Raise("JSONDecodeError")

-----------------------------------------------------------------------------
(* The instance.  `self` is the record of the attributes the methods touch: *)
(* [is_stream, pos, closed, _body, length_remaining].                       *)

Self == [is_stream |-> is_stream, pos |-> pos, closed |-> closed,
         _body |-> _body, length_remaining |-> length_remaining]

\* Lines 129-132 taken on every read.
promote_always(self) ==
    [self EXCEPT !.length_remaining = Some(Len(body)), !.is_stream = TRUE]

\* Lines 129-132 with the buffer's length clamped by the length already held.
promote_clamped(self) ==
    IF self.is_stream THEN self
    ELSE [self EXCEPT !.length_remaining =
                         IF IsNone(@) THEN Some(Len(body)) ELSE Some(Min(Val(@), Len(body))),
                      !.is_stream = TRUE, !.pos = 0]

\* Lines 129-132: a body that is not an IOBase is wrapped in a BytesIO and its
\* length becomes length_remaining.
promote(self) ==
    IF self.is_stream THEN self
    ELSE [self EXCEPT !.length_remaining = Some(Len(body)), !.is_stream = TRUE, !.pos = 0]

\* self._response.body.read(amt): the bytes from the read position on, at most amt
\* of them; a closed stream raises ValueError.
stream_read(self, amt) ==
    LET rest == Len(body) - self.pos
        n == IF IsNone(amt) THEN rest ELSE Min(Val(amt), rest)
    IN  IF self.closed THEN [self |-> self, out |-> Raise("ValueError")]
        ELSE [self |-> [self EXCEPT !.pos = self.pos + n],
              out |-> Return(SubSeq(body, self.pos + 1, self.pos + n))]

\* Lines 137-138 and 144-145 without the max(..., 0).
count_down_unclamped(self, data) ==
    IF IsNone(self.length_remaining) THEN [self |-> self, out |-> Raise("TypeError")]
    ELSE [self |-> IF Val(self.length_remaining) > 0
                   THEN [self EXCEPT !.length_remaining =
                                        Some(Val(self.length_remaining) - Len(data))]
                   ELSE self,
          out |-> Return(data)]

\* Lines 137-138 and 144-145: `self.length_remaining>0` raises TypeError when
\* length_remaining is None.
count_down(self, data) ==
    IF IsNone(self.length_remaining) THEN [self |-> self, out |-> Raise("TypeError")]
    ELSE [self |-> IF Val(self.length_remaining) > 0
                   THEN [self EXCEPT !.length_remaining =
                                        Some(Max(Val(self.length_remaining) - Len(data), 0))]
                   ELSE self,
          out |-> Return(data)]

\* Line 139: `read_data` is bound nowhere.
return_read_data(data) == Raise("NameError")

\* read without line 134: cache_content is honoured for an integer amt as well.
read_caches_any_amt(self, amt, cache_content) ==
    LET s1 == promote(self)
        r == stream_read(s1, amt)
    IN  IF r.out.kind = "raise" THEN [self |-> r.self, out |-> r.out, pulled |-> TRUE]
        ELSE LET data == r.out.val
                 s2 == IF cache_content
                       THEN [r.self EXCEPT !._body = Some(data)]
                       ELSE r.self
                 c == count_down(s2, data)
             IN  [self |-> c.self,
                  out |-> IF c.out.kind = "raise" THEN c.out
                          ELSE IF IsNone(amt) THEN Return(data)
                          ELSE return_read_data(data),
                  pulled |-> TRUE]

\* read(amt, decode_content, cache_content), lines 123-146: the attributes after
\* the call, its outcome, and whether the body stream's read was called.
read(self, amt, cache_content) ==
    LET s1 == promote(self)
        r == stream_read(s1, amt)
    IN  IF r.out.kind = "raise" THEN [self |-> r.self, out |-> r.out, pulled |-> TRUE]
        ELSE LET data == r.out.val
                 s2 == IF IsNone(amt) /\ cache_content
                       THEN [r.self EXCEPT !._body = Some(data)]
                       ELSE r.self
                 c == count_down(s2, data)
             IN  [self |-> c.self,
                  out |-> IF c.out.kind = "raise" THEN c.out
                          ELSE IF IsNone(amt) THEN Return(data)
                          ELSE return_read_data(data),
                  pulled |-> TRUE]

\* Line 171: `if self._body` is false for None and for empty bytes.
body_is_cached(self) == ~IsNone(self._body) /\ Len(Val(self._body)) > 0

\* The data property, lines 169-174.
data(self) ==
    IF body_is_cached(self)
    THEN [self |-> self, out |-> Return(Val(self._body)), pulled |-> FALSE]
    ELSE read(self, None, TRUE)

\* json(), lines 176-187.
json(self) ==
    LET d == data(self)
    IN  IF d.out.kind = "raise" THEN d
        ELSE LET text == decode_utf8(d.out.val)
             IN  [d EXCEPT !.out = IF text.kind = "raise" THEN text ELSE json_loads(text.val)]

\* close() that also gives up the stream it closed.
close_unwraps(self) ==
    IF self.is_stream THEN [self EXCEPT !.closed = TRUE, !.is_stream = FALSE] ELSE self

\* close(), lines 189-191.
close(self) == IF self.is_stream THEN [self EXCEPT !.closed = TRUE] ELSE self

\* drain_conn() that does nothing.
drain_conn_skips(self) == self

\* drain_conn(), lines 166-167.
drain_conn(self) == close(self)

\* Line 160 without the test of self._connection.
puts_conn_unchecked(pool, connection) == ~IsNone(pool)

\* Line 160 without the test of self._pool.
puts_conn_without_pool(pool, connection) == ~IsNone(connection)

\* release_conn(), lines 159-164: whether the connection goes back to the pool.
puts_conn(pool, connection) == ~IsNone(pool) /\ ~IsNone(connection)

-----------------------------------------------------------------------------
(* Inputs. *)

Statuses == {100, 199, 200, 204, 304, 404}
Methods == {"GET", "HEAD"}
HeaderValues == {None} \cup {Some(v) : v \in SeqsUpTo(HdrChars, MaxHdrLen)}
Bodies == SeqsUpTo(BodyBytes, MaxBody)
JsonBodies == SeqsUpTo(JsonBytes, MaxBody)
Amts == {None} \cup {Some(n) : n \in 1..MaxAmt}

\* The responses instances are built from: <<status, Content-Length, chunked, method>>.
LiveInputs ==
    {<<200, None, FALSE, "GET">>, <<200, Some(<<"1">>), FALSE, "GET">>,
     <<200, Some(<<"2">>), FALSE, "GET">>, <<204, None, FALSE, "GET">>,
     <<204, Some(<<"2">>), FALSE, "GET">>}

\* A call as its caller saw it: what was called, its outcome, whether it was the
\* first body operation on the instance, and what it did to the collaborators
\* ("pulled": the body stream's read was called; "put": the pool got the connection).
Call(op, args, out, fresh, effect) ==
    [op |-> op, args |-> args, out |-> out, fresh |-> fresh, effect |-> effect]

\* hist: nput      the connections the pool's _put_conn has received
\*       returned  the bytes read() calls have returned, in total
\*       data1     what the first access of `data` that returned has returned
\*       touched   a body operation has been called
\*       transport what the transport delivered the body as
NoHist == [nput |-> 0, returned |-> 0, data1 |-> None, touched |-> FALSE,
           transport |-> "bytes"]

\* No body operation has happened on the instance yet.
Fresh == ~hist.touched

Pulled(r) == IF r.pulled THEN "pulled" ELSE "none"

-----------------------------------------------------------------------------
(* The length resolver as a function of its inputs. *)

InitLen ==
    /\ pc = "call"
    /\ status \in Statuses
    /\ content_length \in HeaderValues
    /\ chunked \in BOOLEAN
    /\ request_method \in Methods
    /\ ret = None
    /\ body = <<>> /\ is_stream = FALSE /\ pos = 0 /\ closed = FALSE
    /\ _body = None /\ length_remaining = None /\ _pool = None /\ _connection = None
    /\ last = Call("none", None, Return(None), TRUE, "none") /\ hist = NoHist

CallInitLength ==
    /\ pc = "call"
    /\ pc' = "returned"
    /\ ret' = Some(_init_length(content_length, chunked, status, request_method))
    /\ UNCHANGED <<status, content_length, chunked, request_method, body, is_stream, pos,
                   closed, _body, length_remaining, _pool, _connection, last, hist>>

NextLen == CallInitLength

SpecLen == InitLen /\ [][NextLen]_vars

-----------------------------------------------------------------------------
(* The instance and its operations. *)

\* The call on line 44, self._init_length(*args): _init_length takes one argument
\* besides self.
call_init_length(args) ==
    IF Len(args) # 1 THEN [kind |-> "raise", exc |-> "TypeError", warnings |-> 0]
    ELSE _init_length(content_length, chunked, status, args[1])

\* The arguments line 44 passes.
Line44Args == <<>>

\* The attributes lines 31-35 set and the body the transport hands over: an open
\* stream or the received bytes.
Attributes(bodies) ==
    /\ \E i \in LiveInputs :
           status = i[1] /\ content_length = i[2] /\ chunked = i[3] /\ request_method = i[4]
    /\ ret = None
    /\ body \in bodies
    /\ is_stream \in BOOLEAN
    /\ pos = 0
    /\ closed = FALSE
    /\ _body = None
    /\ _pool = None
    /\ hist = [NoHist EXCEPT !.transport = IF is_stream THEN "stream" ELSE "bytes"]

\* Before __init__ has run.
InitNew ==
    /\ pc = "new"
    /\ Attributes(Bodies)
    /\ _connection \in {None, Some("conn")}
    /\ length_remaining = None
    /\ last = Call("none", None, Return(None), TRUE, "none")

\* __init__, lines 25-44, as written: the call on line 44 ends it.
Construct ==
    /\ pc = "new"
    /\ LET r == call_init_length(Line44Args)
       IN  IF r.kind = "return"
           THEN /\ pc' = "live"
                /\ length_remaining' = r.val
                /\ last' = Call("__init__", None, Return(None), TRUE, "none")
           ELSE /\ pc' = "raised"
                /\ UNCHANGED length_remaining
                /\ last' = Call("__init__", None, Raise(r.exc), TRUE, "none")
    /\ UNCHANGED <<status, content_length, chunked, request_method, ret, body, is_stream,
                   pos, closed, _body, _pool, _connection, hist>>

NextNew == Construct

SpecNew == InitNew /\ [][NextNew]_vars

\* An instance as lines 31-44 leave it when line 44 is given the request's method,
\* which is what the operations below are called on.  (As written, line 44 passes
\* no argument and no instance outlives __init__: see Construct.)
Instance(bodies) ==
    /\ pc = "live"
    /\ Attributes(bodies)
    /\ LET r == call_init_length(<<request_method>>)
       IN  r.kind = "return" /\ length_remaining = r.val
    /\ last = Call("__init__", None, Return(None), TRUE, "none")

Init == Instance(Bodies) /\ _connection \in {None, Some("conn")}

\* Instances whose bodies are JSON text, other text or not text, built without a
\* connection (the default of line 29).
InitJson == Instance(JsonBodies) /\ _connection = None

Inputs == <<pc, status, content_length, chunked, request_method, ret, body>>

SetSelf(self) ==
    /\ is_stream' = self.is_stream
    /\ pos' = self.pos
    /\ closed' = self.closed
    /\ _body' = self._body
    /\ length_remaining' = self.length_remaining

\* The pool class sets _pool (line 31) when it hands the response out.
SetPool ==
    /\ pc = "live" /\ IsNone(_pool)
    /\ _pool' = Some("pool")
    /\ last' = Call("_pool=", None, Return(None), Fresh, "none")
    /\ UNCHANGED <<Inputs, is_stream, pos, closed, _body, length_remaining, _connection,
                   hist>>

Read(amt, cache_content) ==
    /\ pc = "live"
    /\ LET r == read(Self, amt, cache_content)
       IN  /\ SetSelf(r.self)
           /\ last' = Call("read", <<amt, cache_content>>, r.out, Fresh, Pulled(r))
           /\ hist' = [hist EXCEPT !.touched = TRUE,
                                   !.returned = IF r.out.kind = "return"
                                                THEN @ + Len(r.out.val) ELSE @]
    /\ UNCHANGED <<Inputs, _pool, _connection>>

\* The generator of read_chunked(amt), lines 148-157, run to its end: the chunks it
\* yields, or the exception a read raises.
RECURSIVE read_chunked(_, _, _)
read_chunked(self, amt, chunks) ==
    LET r == read(self, amt, FALSE)
    IN  IF r.out.kind = "raise" THEN [self |-> r.self, out |-> r.out, pulled |-> TRUE]
        ELSE IF Len(r.out.val) = 0
        THEN [self |-> r.self, out |-> Return(chunks), pulled |-> TRUE]
        ELSE read_chunked(r.self, amt, Append(chunks, r.out.val))

\* list(response.read_chunked(amt)).
ReadChunked(amt) ==
    /\ pc = "live"
    /\ LET r == read_chunked(Self, amt, <<>>)
       IN  /\ SetSelf(r.self)
           /\ last' = Call("read_chunked", <<amt>>, r.out, Fresh, Pulled(r))
    /\ hist' = [hist EXCEPT !.touched = TRUE]
    /\ UNCHANGED <<Inputs, _pool, _connection>>

DataAccess(r) ==
    hist' = [hist EXCEPT !.touched = TRUE,
                         !.data1 = IF IsNone(@) /\ r.out.kind = "return"
                                   THEN Some(r.out.val) ELSE @]

Data ==
    /\ pc = "live"
    /\ LET r == data(Self)
       IN  /\ SetSelf(r.self)
           /\ last' = Call("data", None, r.out, Fresh, Pulled(r))
           /\ DataAccess(r)
    /\ UNCHANGED <<Inputs, _pool, _connection>>

Json ==
    /\ pc = "live"
    /\ LET r == json(Self)
       IN  /\ SetSelf(r.self)
           /\ last' = Call("json", None, r.out, Fresh, Pulled(r))
           /\ DataAccess(data(Self))
    /\ UNCHANGED <<Inputs, _pool, _connection>>

Close ==
    /\ pc = "live"
    /\ SetSelf(close(Self))
    /\ last' = Call("close", None, Return(None), Fresh, "none")
    /\ hist' = [hist EXCEPT !.touched = TRUE]
    /\ UNCHANGED <<Inputs, _pool, _connection>>

DrainConn ==
    /\ pc = "live"
    /\ SetSelf(drain_conn(Self))
    /\ last' = Call("drain_conn", None, Return(None), Fresh, "none")
    /\ hist' = [hist EXCEPT !.touched = TRUE]
    /\ UNCHANGED <<Inputs, _pool, _connection>>

ReleaseConn ==
    /\ pc = "live"
    /\ IF puts_conn(_pool, _connection)
       THEN /\ hist' = [hist EXCEPT !.nput = @ + 1]
            /\ _connection' = None
            /\ last' = Call("release_conn", None, Return(None), Fresh, "put")
       ELSE /\ UNCHANGED <<hist, _connection>>
            /\ last' = Call("release_conn", None, Return(None), Fresh, "none")
    /\ UNCHANGED <<Inputs, is_stream, pos, closed, _body, length_remaining, _pool>>

Next ==
    \/ SetPool
    \/ \E amt \in Amts, cache_content \in BOOLEAN : Read(amt, cache_content)
    \/ \E amt \in Amts : ReadChunked(amt)
    \/ Data
    \/ Json
    \/ Close
    \/ DrainConn
    \/ ReleaseConn

Spec == Init /\ [][Next]_vars

SpecJson == InitJson /\ [][Next]_vars

\* The caller of a response finishes with it: a response whose stream is still
\* open is closed or drained.  Nothing obliges the caller to call release_conn.
\* The calls that reach the body or the connection directly: read_chunked is read
\* called in a loop and json is data followed by decoding, and both are left to
\* Spec and SpecJson.
NextClosing ==
    \/ SetPool
    \/ \E amt \in Amts, cache_content \in BOOLEAN : Read(amt, cache_content)
    \/ Data
    \/ Close
    \/ DrainConn
    \/ ReleaseConn

SpecClosing ==
    Init /\ [][NextClosing]_vars /\ WF_closed(Close) /\ WF_closed(DrainConn)

-----------------------------------------------------------------------------
(* Properties of the length resolver, under SpecLen. *)

Returned == pc = "returned"
Result == Val(ret)
Resolves(length) == Result.kind = "return" /\ Result.val = length

\* The statuses that carry no body.
NoBodyStatus == status \in {204, 304} \/ (status >= 100 /\ status < 200)

\* The values of a Content-Length header value, as the integers they denote.
HeaderParts == split(Val(content_length), ",")
HeaderInts == {int(HeaderParts[i]) : i \in 1..Len(HeaderParts)}
AllParse == \A r \in HeaderInts : r.kind = "return"
Disagree == AllParse /\ Cardinality({r.val : r \in HeaderInts}) > 1
Conflict == ~IsNone(content_length) /\ chunked
IsDecimal(s) == Len(s) > 0 /\ \A i \in 1..Len(s) : s[i] \in Digits

C7_SingleValueResolves ==
    (Returned /\ ~IsNone(content_length) /\ IsDecimal(Val(content_length)) /\ ~chunked) =>
        Resolves(Some(DecimalValue(Val(content_length))))

\* C7, amended: a single valid non-negative Content-Length and no chunked
\* encoding resolve to that value when the status is none of 204, 304, 1xx and
\* the request method is not HEAD; otherwise they resolve to 0.
C7_SingleValueResolvesUnlessNoBody ==
    (Returned /\ ~IsNone(content_length) /\ IsDecimal(Val(content_length)) /\ ~chunked) =>
        IF NoBodyStatus \/ request_method = "HEAD"
        THEN Resolves(Some(0))
        ELSE Resolves(Some(DecimalValue(Val(content_length))))

C7_Witness ==
    /\ Returned /\ status = 404 /\ ~chunked /\ request_method = "GET"
    /\ content_length = Some(<<"1", "0">>)
    /\ Resolves(Some(10))

\* C8: with a Content-Length header and chunked Transfer-Encoding both present the
\* resolver records a conflict warning and returns None, raising no error.
C8_ConflictWarnsAndReturnsNone ==
    (Returned /\ Conflict) => (Resolves(None) /\ Result.warnings > 0)

-----------------------------------------------------------------------------
(* Properties of the instance, under Spec. *)

Live == pc = "live"
LastIs(op) == last.op = op
LastRead(amt) == last.op = "read" /\ last.args[1] = amt
HadConnection == ~IsNone(_connection) \/ hist.nput > 0

\* C1: with a pool and a connection attached, release_conn called twice or more
\* puts the connection to the pool exactly once: the first call hands it over and
\* clears the handle, every later call is a no-op, and no call raises.
C1_ReleasePutsOnce ==
    Live =>
        /\ hist.nput <= 1
        /\ hist.nput = 1 => IsNone(_connection)
        /\ LastIs("release_conn") =>
              /\ last.out = Return(None)
              /\ (~IsNone(_pool) /\ HadConnection) => (hist.nput = 1 /\ IsNone(_connection))

\* A release_conn that found the connection already handed over.
C1_Witness ==
    /\ Live /\ LastIs("release_conn") /\ last.effect = "none"
    /\ ~IsNone(_pool) /\ hist.nput = 1 /\ IsNone(_connection)
    /\ hist.touched

\* C2: once the read calls have returned as many bytes as the body holds,
\* length_remaining is 0 and a further read, whatever its arguments, returns
\* empty bytes.
C2_DrainedReadsLeaveZero ==
    (Live /\ LastIs("read") /\ last.out.kind = "return" /\ hist.returned = Len(body)) =>
        /\ length_remaining = Some(0)
        /\ \A amt \in Amts, cache_content \in BOOLEAN :
              read(Self, amt, cache_content).out = Return(<<>>)

\* C3: the first access of `data` returns the whole body, the empty body included,
\* and every later access returns the same bytes from the cache without calling
\* the body stream's read, whatever has happened to the stream since.
C3_DataIsCached ==
    Live =>
        /\ (LastIs("data") /\ last.fresh) => last.out = Return(body)
        /\ ~IsNone(hist.data1) =>
              /\ data(Self).out = Return(Val(hist.data1))
              /\ ~data(Self).pulled

\* The instance as the transport's response first made it.
FreshSelf ==
    [is_stream |-> hist.transport = "stream", pos |-> 0, closed |-> FALSE, _body |-> None,
     length_remaining |-> _init_length(content_length, chunked, status, request_method).val]

RECURSIVE Concat(_)
Concat(chunks) == IF Len(chunks) = 0 THEN <<>> ELSE Head(chunks) \o Concat(Tail(chunks))

\* C4: read_chunked(amt) consumed to its end on a fresh response, for amt None or
\* an integer, yields chunks whose concatenation is what read(None) returns on a
\* fresh identical body, and leaves the body drained.
C4_ChunksConcatenateToBody ==
    (Live /\ LastIs("read_chunked") /\ last.fresh
        /\ read(FreshSelf, None, FALSE).out.kind = "return") =>
        /\ last.out.kind = "return"
        /\ Concat(last.out.val) = read(FreshSelf, None, FALSE).out.val
        /\ pos = Len(body)

\* C9 as stated: with status 204, whatever the headers and the transport's body,
\* read(None) returns empty bytes and length_remaining is 0 from construction on.
C9_NoContentReadsEmpty ==
    (Live /\ status = 204) =>
        /\ length_remaining = Some(0)
        /\ LastRead(None) => last.out = Return(<<>>)

\* C9, amended: with status 204 length_remaining is 0 at construction.  When the
\* transport's body is empty (bytes or stream) it stays 0 after every operation
\* and read(None) returns empty bytes, or raises ValueError if the stream was
\* closed before.  When the body is a non-empty stream length_remaining also
\* stays 0, and read(None) returns the bytes the stream still holds.  When the
\* body is non-empty bytes the first read replaces length_remaining by the
\* number of bytes, and read(None) returns them.
C9_NoContentAmended ==
    (Live /\ status = 204) =>
        /\ LastIs("__init__") => length_remaining = Some(0)
        /\ (body = <<>> \/ hist.transport = "stream") => length_remaining = Some(0)
        /\ (LastRead(None) /\ body = <<>>) =>
              \/ last.out = Return(<<>>)
              \/ closed /\ last.out = Raise("ValueError")
        /\ (LastRead(None) /\ last.fresh) => last.out = Return(body)
        /\ (hist.transport = "bytes" /\ body # <<>> /\ is_stream) =>
              /\ ~IsNone(length_remaining)
              /\ Val(length_remaining) <= Len(body)

C9_Witness ==
    /\ Live /\ status = 204 /\ content_length = Some(<<"2">>)
    /\ body = <<>> /\ hist.transport = "stream"
    /\ LastRead(None) /\ last.out = Return(<<>>) /\ ~last.fresh
    /\ length_remaining = Some(0)

\* The body has been read to its end.
Drained == is_stream /\ pos = Len(body)

\* C11: a response that holds a pool and a leased connection and has been closed
\* (close, drain_conn) or drained by reads eventually has its connection put to
\* the pool, once.
C11_ClosedOrDrainedLeadsToPut ==
    (Live /\ ~IsNone(_pool) /\ ~IsNone(_connection) /\ (closed \/ Drained))
        ~> (hist.nput = 1)

\* C12 as stated: once length_remaining is 0 no operation makes it anything else.
C12_ZeroStaysZero ==
    [][(Live /\ length_remaining = Some(0)) => length_remaining' = Some(0)]_vars

\* C12: once length_remaining is 0 it stays 0, except in the first read of a
\* buffered body (read, read_chunked or data), which sets it to the buffer's
\* length and leaves it at that length less the bytes it pulled.
C12_ZeroStaysZeroButPromotion ==
    [][(Live /\ length_remaining = Some(0))
        => \/ length_remaining' = Some(0)
           \/ /\ ~is_stream /\ is_stream'
              /\ last'.op \in {"read", "read_chunked", "data", "json"}
              /\ length_remaining' = Some(Len(body) - pos')]_vars

\* A read after reads have brought length_remaining of a non-empty body to 0.
C12_Witness ==
    /\ Live /\ LastIs("read") /\ ~last.fresh
    /\ Len(body) > 0 /\ pos = Len(body)
    /\ last.out = Return(<<>>)
    /\ length_remaining = Some(0)

\* The length the resolver gave the instance at construction.
ResolvedLength == FreshSelf.length_remaining

\* C13: with no resolved length and a body delivered as a stream, a read of the
\* open stream returns (the bytes up to the end, then empty bytes) and
\* length_remaining stays None.
C13_UnknownLengthStreams ==
    (Live /\ hist.transport = "stream" /\ IsNone(ResolvedLength)
          /\ LastIs("read") /\ ~closed)
        => /\ last.out.kind = "return"
           /\ IsNone(length_remaining)
           /\ IsNone(last.args[1]) => pos = Len(body)

\* C14: read(amt) with an integer amt on an open body of known length returns,
\* and returns the bytes it pulled: at most amt of them, the ones that end at the
\* read position, none once the body is exhausted.
C14_ReadAmtReturnsPulled ==
    (Live /\ LastIs("read") /\ ~IsNone(last.args[1]) /\ ~closed
          /\ ~IsNone(length_remaining))
        => /\ last.out.kind = "return"
           /\ Len(last.out.val) <= Val(last.args[1])
           /\ last.out.val = SubSeq(body, pos - Len(last.out.val) + 1, pos)

\* The first body operation on a buffered body was a read, and the resolver had
\* given the instance a length.
FirstReadOfBuffer ==
    /\ Live /\ hist.transport = "bytes" /\ LastIs("read") /\ last.fresh
    /\ ~IsNone(ResolvedLength)

\* C16 as stated: the first read of a buffered body promotes it with
\* length_remaining the smaller of the resolved length and the buffer's length,
\* and counts the bytes it pulls down from there.
C16_PromotionIsMin ==
    FirstReadOfBuffer
        => LET promoted == promote(FreshSelf).length_remaining
           IN  /\ promoted = Some(Min(Val(ResolvedLength), Len(body)))
               /\ length_remaining = Some(Max(Val(promoted) - pos, 0))

\* C16: the first read of a buffered body promotes it with length_remaining the
\* buffer's length, whatever the resolved length was, and counts the bytes it
\* pulls down from there.
C16_PromotionIsBufferLength ==
    FirstReadOfBuffer
        => LET promoted == promote(FreshSelf).length_remaining
           IN  /\ promoted = Some(Len(body))
               /\ length_remaining = Some(Len(body) - pos)

\* A first read that leaves more than the resolved length allowed.
C16_Witness ==
    /\ FirstReadOfBuffer
    /\ Val(ResolvedLength) < Len(body)
    /\ pos > 0
    /\ Val(length_remaining) > Max(Val(ResolvedLength) - pos, 0)

\* length_remaining is None or a natural number.
NonNegative(length) == IsNone(length) \/ Val(length) >= 0

C18_OnlyFullReadCaches ==
    [][Live =>
        /\ (last'.op = "read" /\ ~IsNone(last'.args[1])) => _body' = _body
        /\ (last'.op = "read" /\ ~last'.args[2]) => _body' = _body
        /\ last'.op = "read_chunked" => _body' = _body
        /\ (_body' # _body)
             => /\ \/ last'.op = "read" /\ last'.args = <<None, TRUE>>
                   \/ last'.op \in {"data", "json"}
                /\ _body' = Some(SubSeq(body, IF is_stream THEN pos + 1 ELSE 1, pos'))]_vars

\* read(1, cache_content=True) has pulled a byte and cached nothing.
C18_Witness ==
    /\ Live /\ LastIs("read") /\ last.args = <<Some(1), TRUE>>
    /\ last.fresh /\ pos = 1
    /\ IsNone(_body)

\* C19: a body that is a stream stays a stream under every operation, close and
\* drain_conn included.  A buffered body becomes a stream only in a call of read
\* (made directly or by read_chunked, data or json), before any byte has been
\* pulled, and every call of read leaves the body a stream, so only the first one
\* changes it; close, drain_conn, release_conn and the pool's assignment never do.
C19_PromotedOnceByRead ==
    [][Live =>
        /\ is_stream => is_stream'
        /\ (~is_stream /\ is_stream')
             => /\ last'.op \in {"read", "read_chunked", "data", "json"}
                /\ last'.effect = "pulled"
                /\ pos = 0 /\ hist.returned = 0
        /\ last'.effect = "pulled" => is_stream'
        /\ last'.op \in {"close", "drain_conn", "release_conn", "_pool="}
             => is_stream' = is_stream]_vars

\* A buffered body that a read promoted and close then closed is still a stream.
C19_Witness ==
    /\ Live /\ hist.transport = "bytes" /\ LastIs("close")
    /\ is_stream /\ closed

\* C20: drain_conn leaves the instance as close would: a body that is a stream
\* is closed, also after a partial read, a body that is still a buffer is left
\* alone, and the connection, the pool, the cached body, length_remaining and the
\* number of connections put to the pool are unchanged.
C20_DrainIsClose ==
    [][(Live /\ last'.op = "drain_conn")
        => /\ [is_stream |-> is_stream', pos |-> pos', closed |-> closed',
               _body |-> _body', length_remaining |-> length_remaining'] = close(Self)
           /\ closed' = (closed \/ is_stream)
           /\ UNCHANGED <<is_stream, pos, _body, length_remaining, _pool, _connection>>
           /\ hist'.nput = hist.nput
           /\ last'.out = Return(None)]_vars

\* drain_conn has closed a partly read stream of a response that holds its pool
\* and its connection.
C20_Witness ==
    /\ Live /\ LastIs("drain_conn")
    /\ is_stream /\ closed /\ 0 < pos /\ pos < Len(body)
    /\ ~IsNone(_pool) /\ ~IsNone(_connection) /\ hist.nput = 0

\* C21: the pool receives a connection only in a release_conn step taken with a
\* pool and a connection set, one connection per step; the connection handle
\* changes only in such a step, from set to None; release_conn without a pool
\* keeps the handle; read, read_chunked, data, json, close and drain_conn change
\* neither the handle nor the pool and put nothing.
C21_OnlyReleaseConnPuts ==
    [][Live =>
        /\ (hist'.nput # hist.nput \/ _connection' # _connection)
             => /\ last'.op = "release_conn" /\ last'.effect = "put"
                /\ ~IsNone(_pool) /\ ~IsNone(_connection)
                /\ hist'.nput = hist.nput + 1
                /\ IsNone(_connection')
        /\ (last'.op = "release_conn" /\ IsNone(_pool))
             => /\ _connection' = _connection
                /\ hist'.nput = hist.nput
        /\ last'.op = "release_conn" => _pool' = _pool
        /\ last'.op \in {"read", "read_chunked", "data", "json", "close", "drain_conn"}
             => /\ UNCHANGED <<_connection, _pool>>
                /\ hist'.nput = hist.nput]_vars

\* After reads and a close that left the connection leased, release_conn has put
\* it to the pool.
C21_Witness ==
    /\ Live /\ LastIs("release_conn") /\ last.effect = "put"
    /\ closed /\ pos = Len(body) /\ Len(body) > 0
    /\ ~IsNone(_pool) /\ IsNone(_connection) /\ hist.nput = 1

-----------------------------------------------------------------------------
(* Construction, under SpecNew. *)

\* C15: __init__ completes, having called the length resolver with the request's
\* method and stored its result in length_remaining, which makes it 0 for HEAD.
C15_ConstructionResolvesLength ==
    (pc # "new")
        => /\ pc = "live"
           /\ last.out = Return(None)
           /\ length_remaining = call_init_length(<<request_method>>).val
           /\ request_method = "HEAD" => length_remaining = Some(0)

-----------------------------------------------------------------------------
(* json(), under SpecJson. *)

\* The JSON values whose text has at most MaxBody + 1 characters, and their text
\* as json.dumps writes it.
RECURSIVE JsonValues(_)
JsonValues(depth) ==
    IF depth = 0 THEN {JInt(OnesValue(k)) : k \in 1..(MaxBody + 1)} \cup {JList(<<>>)}
    ELSE JsonValues(depth - 1) \cup {JList(<<v>>) : v \in JsonValues(depth - 1)}

RECURSIVE DecimalText(_)
DecimalText(n) ==
    LET digit == CHOOSE c \in Digits : DigitVal(c) = n % 10
    IN  IF n < 10 THEN <<digit>> ELSE Append(DecimalText(n \div 10), digit)

RECURSIVE json_dumps(_)
json_dumps(v) ==
    IF v.t = "int" THEN DecimalText(v.n)
    ELSE IF Len(v.items) = 0 THEN <<"[", "]">>
    ELSE <<"[">> \o json_dumps(v.items[1]) \o <<"]">>

Encodings == {json_dumps(v) : v \in JsonValues(MaxBody)}

\* C10: json() on a fresh response returns the value the body encodes when the
\* body is UTF-8 JSON, fails with UnicodeDecodeError when the body is not UTF-8,
\* and fails with JSONDecodeError when the body is text that is not JSON.
C10_JsonDecodesOrFails ==
    (Live /\ LastIs("json") /\ last.fresh) =>
        IF \E i \in 1..Len(body) : body[i] = FF
        THEN last.out = Raise("UnicodeDecodeError")
        ELSE IF body \in Encodings
        THEN /\ last.out.kind = "return"
             /\ json_dumps(last.out.val) = body
        ELSE last.out = Raise("JSONDecodeError")

====
